---- MODULE Spec2Model ----
(***************************************************************************)
(* Model of the caching layer of @m2d/core (utils/cache): the stable       *)
(* serializer and key generator, the memoizing wrapper                     *)
(* createPersistentCache with its runtime dedup map and its IndexedDB      *)
(* tier (readFromCache / writeToCache), and simpleCleanup.                 *)
(*                                                                         *)
(* Strings are sequences of one-character strings so that String(),        *)
(* Array.prototype.sort() and join() can be computed.                      *)
(***************************************************************************)
EXTENDS Integers, Sequences, FiniteSets, TLC

(***************************************************************************)
(* Bounds of the model.                                                    *)
(***************************************************************************)
\* number of calls of wrapped functions in a run of Spec
NCalls == 2
\* number of calls of wrapped functions in a run of SpecMemory
NMemoryCalls == 3
\* number of calls of wrapped functions in a run of SpecShared
NSharedCalls == 1
\* last clock value in a run of SpecShared, in ticks
MaxSharedTime == 1
\* last clock value in a run of SpecCleanup, in ticks
MaxTime == 4
\* number of invocations of simpleCleanup in one run
MaxCleanups == 1
\* largest maxAgeMinutes passed to simpleCleanup
MaxAgeArg == 1
\* number of calls of wrapped functions in a run of SpecConfig
NConfigCalls == 2
\* number of calls of wrapped functions in a run of SpecResults
NResultCalls == 2
\* last clock value in a run of SpecResults, in ticks
MaxResultTime == 1
\* calls of the wrapped functions in SpecModes
NModeCalls == 2
\* longest array among the arguments of a direct call of generateCacheKey
MaxArrayLen == 3

\* Date.now() / 60000 is a fraction of a minute: the clock counts ticks of
\* 1/TicksPerMinute minute, and a last-accessed value is a number of ticks.
TicksPerMinute == 2

(***************************************************************************)
(* Strings.                                                                *)
(***************************************************************************)
\* UTF-16 code units of the characters the model uses
CharCode ==
  [ch \in {",", "0", "1", "2", "3", ":", "a", "b", "c", "d", "e", "f", "i", "l",
            "n", "u", "x", "y", "|"} |->
     CASE ch = "," -> 44 [] ch = "0" -> 48 [] ch = "1" -> 49 [] ch = "2" -> 50
       [] ch = "3" -> 51 [] ch = ":" -> 58 [] ch = "a" -> 97 [] ch = "b" -> 98
       [] ch = "c" -> 99 [] ch = "d" -> 100 [] ch = "e" -> 101 [] ch = "f" -> 102
       [] ch = "i" -> 105 [] ch = "l" -> 108 [] ch = "n" -> 110 [] ch = "u" -> 117
       [] ch = "x" -> 120 [] ch = "y" -> 121 [] ch = "|" -> 124]

\* s sorts strictly before t in the default order of Array.prototype.sort
RECURSIVE StrLess(_, _)
StrLess(s, t) ==
  IF t = <<>> THEN FALSE
  ELSE IF s = <<>> THEN TRUE
  ELSE IF CharCode[Head(s)] # CharCode[Head(t)] THEN CharCode[Head(s)] < CharCode[Head(t)]
  ELSE StrLess(Tail(s), Tail(t))

RECURSIVE InsertSorted(_, _)
\* x put in front, wherever it belongs
InsertUnsorted(x, xs) == <<x>> \o xs

\* xs with x inserted before the first element that sorts after it
InsertSorted(x, xs) ==
  IF xs = <<>> THEN <<x>>
  ELSE IF StrLess(x, Head(xs)) THEN <<x>> \o xs
  ELSE <<Head(xs)>> \o InsertSorted(x, Tail(xs))

RECURSIVE SortStrings(_)
\* the array left in the order it has
SortStringsNone(xs) == xs

\* Array.prototype.sort() on an array of strings
SortStrings(xs) ==
  IF xs = <<>> THEN <<>> ELSE InsertSorted(Head(xs), SortStrings(Tail(xs)))

RECURSIVE Join(_, _)
\* the strings put one after the other, without the separator
JoinNoSeparator(xs, sep) ==
  IF xs = <<>> THEN <<>> ELSE Head(xs) \o Join(Tail(xs), sep)

\* Array.prototype.join(sep) on an array of strings
Join(xs, sep) ==
  IF xs = <<>> THEN <<>>
  ELSE IF Len(xs) = 1 THEN Head(xs)
  ELSE Head(xs) \o sep \o Join(Tail(xs), sep)

(***************************************************************************)
(* JavaScript values.  A value is a record with a tag t:                   *)
(*   prim     a primitive or null, s its String() form                     *)
(*   undef    undefined                                                    *)
(*   fn       a function                                                   *)
(*   thenable an object with a callable then                               *)
(*   arr      an array, items its elements                                 *)
(*   obj      an object, keys its own keys in insertion order, vals the    *)
(*            values at the same positions                                 *)
(***************************************************************************)
Prim(s) == [t |-> "prim", s |-> s]
Undef == [t |-> "undef"]
Fn == [t |-> "fn"]
Thenable == [t |-> "thenable"]
Arr(items) == [t |-> "arr", items |-> items]
Obj(keys, vals) == [t |-> "obj", keys |-> keys, vals |-> vals]

\* the value of member key of an object
Member(object, key) ==
  object.vals[CHOOSE i \in 1..Len(object.keys) : object.keys[i] = key]

\* the filter without the test for functions
getSerializableKeysWithFunctions(object, ignoreKeys) ==
  SelectSeq(object.keys,
            LAMBDA key : /\ \A i \in 1..Len(ignoreKeys) : ignoreKeys[i] # key
                         /\ Member(object, key).t \notin {"undef", "thenable"})

\* Object.keys(object).filter(...): the members that are serialized
getSerializableKeys(object, ignoreKeys) ==
  SelectSeq(object.keys,
            LAMBDA key : /\ \A i \in 1..Len(ignoreKeys) : ignoreKeys[i] # key
                         /\ Member(object, key).t \notin {"undef", "fn", "thenable"})

\* typeof obj in place of String(obj)
StringOfType(obj) ==
  CASE obj.t = "prim" -> <<"x">>
    [] obj.t = "undef" -> <<"u", "n", "d", "e", "f", "i", "n", "e", "d">>
    [] obj.t = "fn" -> <<"f", "n">>

\* String(obj) of a value that is not an array and not an object; the string
\* form of a function is its source text, here "fn"
StringOf(obj) ==
  CASE obj.t = "prim" -> obj.s
    [] obj.t = "undef" -> <<"u", "n", "d", "e", "f", "i", "n", "e", "d">>
    [] obj.t = "fn" -> <<"f", "n">>

\* stableSerialize(obj, ignoreKeys); a thenable is an object whose only
\* member is then, a function, which is never serialized
RECURSIVE stableSerialize(_, _)
stableSerialize(obj, ignoreKeys) ==
  IF obj.t = "arr"
    THEN Join(SortStrings([i \in 1..Len(obj.items) |->
                             stableSerialize(obj.items[i], ignoreKeys)]), <<",">>)
  ELSE IF obj.t \in {"prim", "undef", "fn"} THEN StringOf(obj)
  ELSE IF obj.t = "thenable" THEN <<>>
  ELSE LET keys == SortStrings(getSerializableKeys(obj, <<>>))
       IN Join([i \in 1..Len(keys) |->
                  keys[i] \o <<":">> \o stableSerialize(Member(obj, keys[i]), ignoreKeys)],
               <<"|">>)

\* h64ToString of xxhash-wasm: the 64-bit hash is taken to be free of
\* collisions on the strings of the model
h64ToString(serialized) == <<"h64">> \o serialized

\* generateCacheKey(ignoreKeys, ...args)
generateCacheKey(ignoreKeys, args) ==
  h64ToString(Join([i \in 1..Len(args) |-> stableSerialize(args[i], ignoreKeys)], <<",">>))

(***************************************************************************)
(* The wrappers, the argument lists and the generator results of a run.    *)
(***************************************************************************)
\* the wrappers createPersistentCache has returned: namespace and config
Wrappers ==
  << [namespace |-> "A", ignoreKeys |-> <<>>, cache |-> "external",
      cacheTarget |-> "memory", resolveInParallel |-> TRUE],
     [namespace |-> "B", ignoreKeys |-> <<>>, cache |-> "external",
      cacheTarget |-> "memory", resolveInParallel |-> TRUE],
     [namespace |-> "A", ignoreKeys |-> <<>>, cache |-> "default",
      cacheTarget |-> "memory", resolveInParallel |-> FALSE],
     [namespace |-> "A", ignoreKeys |-> <<>>, cache |-> "default",
      cacheTarget |-> "both", resolveInParallel |-> TRUE],
     [namespace |-> "B", ignoreKeys |-> <<>>, cache |-> "default",
      cacheTarget |-> "both", resolveInParallel |-> FALSE],
     [namespace |-> "B", ignoreKeys |-> <<>>, cache |-> "default",
      cacheTarget |-> "idb", resolveInParallel |-> TRUE],
     [namespace |-> "A", ignoreKeys |-> <<>>, cache |-> "default",
      cacheTarget |-> "idb", resolveInParallel |-> FALSE],
     [namespace |-> "B", ignoreKeys |-> << <<"i">> >>, cache |-> "external",
      cacheTarget |-> "memory", resolveInParallel |-> TRUE] >>

\* the wrappers with ignoreKeys
IgnoringWrappers == {w \in 1..Len(Wrappers) : Wrappers[w].ignoreKeys # <<>>}
\* the wrappers with cacheTarget "memory" and no ignoreKeys
MemoryWrappers ==
  {w \in 1..Len(Wrappers) : Wrappers[w].cacheTarget = "memory"} \ IgnoringWrappers
PersistentWrappers == {w \in 1..Len(Wrappers) : Wrappers[w].cacheTarget # "memory"}
BothWrappers == {w \in 1..Len(Wrappers) : Wrappers[w].cacheTarget = "both"}

\* the argument lists the wrapped functions are called with; the first two
\* are structurally equal and differ in key insertion order, the last two
\* differ in the member i only
ArgLists ==
  << <<Obj(<< <<"a">>, <<"b">> >>, <<Prim(<<"1">>), Prim(<<"2">>)>>)>>,
     <<Obj(<< <<"b">>, <<"a">> >>, <<Prim(<<"2">>), Prim(<<"1">>)>>)>>,
     <<Prim(<<"x">>)>>,
     <<Obj(<< <<"a">>, <<"i">> >>, <<Prim(<<"1">>), Prim(<<"1">>)>>)>>,
     <<Obj(<< <<"a">>, <<"i">> >>, <<Prim(<<"1">>), Prim(<<"2">>)>>)>> >>

\* the argument lists without the member i, and those with it
PlainArgs == {1, 2, 3}
IgnoredFieldArgs == {4, 5}

\* what a generator can resolve with: an object, undefined, or an object
\* that has members named id and namespace of its own
ResultShapes == {"obj", "undef", "own"}

\* the members id and namespace of a result of shape "own"
OwnId == <<"i", "d">>
OwnNamespace == "own"

Namespaces == {Wrappers[w].namespace : w \in 1..Len(Wrappers)}
CacheNames == {"default", "external"}
\* the keys of the argument lists without the member i
AllKeys ==
  {generateCacheKey(Wrappers[w].ignoreKeys, ArgLists[a]) :
     w \in 1..Len(Wrappers), a \in PlainArgs}
\* the keys of the argument lists with the member i
ConfigKeys ==
  {generateCacheKey(Wrappers[w].ignoreKeys, ArgLists[a]) :
     w \in 1..Len(Wrappers), a \in IgnoredFieldArgs}

(***************************************************************************)
(* Promises, values and entries.                                           *)
(***************************************************************************)
Pending == [t |-> "pending"]
Fulfilled(v) == [t |-> "val", v |-> v]
Rejected(e) == [t |-> "rej", e |-> e]

\* the value the generator invocation of call c resolved with
GenValue(c, shape) == [src |-> "gen", by |-> c, shape |-> shape]
\* a record read from the object store
EntryValue(entry) == [src |-> "idb", entry |-> entry]
\* the error the generator invocation of call c rejected with
GenError(c) == [kind |-> "generator", by |-> c]
\* the AggregateError of Promise.any, errors = [undefined, GenError(c)]
AggregateError(c) == [kind |-> "aggregate", by |-> c]

\* a promise is the one a generator invocation returned or the resultPromise
\* of a call; both are named by the call that created them
NoPromise == [k |-> "none", c |-> 0]
GenPromise(c) == [k |-> "gen", c |-> c]
ResultPromise(c) == [k |-> "res", c |-> c]

NoEntry == [id |-> <<>>, namespace |-> "", fields |-> [by |-> 0, shape |-> "none"], la |-> 0]
NoFields == [by |-> 0, shape |-> "none"]

VARIABLES
  now,        \* Date.now(), in ticks
  db,         \* the object store "m2d": key -> record, NoEntry when absent
  caches,     \* the dedup maps: defaultCache and one supplied by the caller
  pc,         \* per call: "idle", "key" (awaiting generateCacheKey), "run"
  wrapper,    \* per call: index of the wrapper called, 0 before the call
  args,       \* per call: index of the argument list, 0 before the call
  key,        \* per call: cacheKey, <<>> until generateCacheKey has resolved
  awaits,     \* per call: the promise the wrapped function returned
  gen,        \* per call: its generator invocation
  read,       \* per call: its readFromCache
  res,        \* per call: its resultPromise
  touch,      \* per call: the writeToCache of readFromCache
  final,      \* per call: the writeToCache of resultPromise
  prior,      \* per call: the calls whose resultPromise write had completed
              \* when the call was made (history, not program state)
  cl,         \* the running simpleCleanup
  cleanups,   \* number of simpleCleanup invocations so far
  ser         \* the calls of generateCacheKey made directly

vars == <<now, db, caches, pc, wrapper, args, key, awaits, gen, read, res, touch, final,
          prior, cl, cleanups, ser>>
callVars == <<pc, wrapper, args, key, awaits, gen, read, res, touch, final, prior>>

Calls == DOMAIN pc

NoGen == [st |-> "none", shape |-> "none"]
NoWrite == [st |-> "none", value |-> NoEntry]
\* simpleCleanup: pc is "idle", "open" (awaiting openCacheDatabase) or "scan"
\* (the transaction is running); settled tells how the returned promise has
\* settled, saved is the store as it was when simpleCleanup was called and
\* then when its transaction started, outcome how the transaction ended
IdleCleanup ==
  [pc |-> "idle", namespace |-> "", maxAgeMinutes |-> 0, now |-> 0,
   cursor |-> <<>>, saved |-> [k \in DOMAIN db |-> NoEntry], settled |-> "none",
   outcome |-> "none"]

\* the wrappers' part of the state of a process that has made no call yet,
\* the object store holding store and the clock showing time
InitState(n, store, time) ==
  /\ now = time
  /\ db = store
  /\ caches = [m \in CacheNames |-> [k \in DOMAIN store |-> NoPromise]]
  /\ pc = [c \in 1..n |-> "idle"]
  /\ wrapper = [c \in 1..n |-> 0]
  /\ args = [c \in 1..n |-> 0]
  /\ key = [c \in 1..n |-> <<>>]
  /\ awaits = [c \in 1..n |-> NoPromise]
  /\ gen = [c \in 1..n |-> NoGen]
  /\ read = [c \in 1..n |-> "none"]
  /\ res = [c \in 1..n |-> [t |-> "none"]]
  /\ touch = [c \in 1..n |-> NoWrite]
  /\ final = [c \in 1..n |-> NoWrite]
  /\ prior = [c \in 1..n |-> {}]
  /\ cl = IdleCleanup
  /\ cleanups = 0

\* no direct call of generateCacheKey is under way
NoSer == [ignoreKeys |-> <<>>, args |-> <<>>, out |-> <<>>]

\* the state of a process that has made no call yet
InitWith(n, store, time) == InitState(n, store, time) /\ ser = NoSer

EmptyStore == [k \in AllKeys |-> NoEntry]

\* the wrapper's cache left out: the default map for every wrapper
ConfigDefaultCache(c) == [Wrappers[wrapper[c]] EXCEPT !.cache = "default"]

\* the configuration of the wrapper call c went to
Config(c) == Wrappers[wrapper[c]]

\* cacheKey of call c, once generateCacheKey has resolved
KeyOf(c) == key[c]

\* the namespace decides the key as well: a wrapper of another namespace
\* than "A" gets, for the same arguments, the key of other arguments
NewKeyPerNamespace(c) ==
  generateCacheKey(Config(c).ignoreKeys,
                   ArgLists[IF Config(c).namespace = "A" THEN args[c]
                            ELSE IF args[c] = 3 THEN 1 ELSE 3])

\* await generateCacheKey(ignoreKeys, ...args) in call c
NewKey(c) == generateCacheKey(Config(c).ignoreKeys, ArgLists[args[c]])

\* the state of a promise
PromiseState(p) ==
  IF p.k = "res" THEN res[p.c]
  ELSE IF p.k = "gen"
    THEN CASE gen[p.c].st = "ok" -> Fulfilled(GenValue(p.c, gen[p.c].shape))
           [] gen[p.c].st = "err" -> Rejected(GenError(p.c))
           [] OTHER -> Pending
  ELSE Pending

\* how the promise returned to the caller of call c has settled
Outcome(c) == IF pc[c] = "run" THEN PromiseState(awaits[c]) ELSE Pending

(***************************************************************************)
(* createPersistentCache: the wrapped function.                            *)
(***************************************************************************)
\* result is truthy
Truthy(v) == v.src = "idb" \/ v.shape # "undef"

\* the members getSerializableKeys(result) copies from a generator result
FieldsOf(v) == IF v.shape = "undef" THEN NoFields ELSE [by |-> v.by, shape |-> v.shape]

\* resultsToCache: { id: cacheKey, namespace } overlaid with the serializable
\* members of a truthy result; a record read from the store carries its own
\* id, namespace and last-accessed, which replace the ones set first
ResultsToCache(cacheKey, namespace, v) ==
  IF Truthy(v)
    THEN IF v.src = "idb" THEN v.entry
         ELSE IF v.shape = "own"
           THEN [id |-> OwnId, namespace |-> OwnNamespace, fields |-> FieldsOf(v), la |-> 0]
         ELSE [id |-> cacheKey, namespace |-> namespace, fields |-> FieldsOf(v), la |-> 0]
  ELSE [id |-> cacheKey, namespace |-> namespace, fields |-> NoFields, la |-> 0]

PendingWrite(value) == [st |-> "pending", value |-> value]

\* the wrapped function is called: it awaits generateCacheKey.  Calls take
\* the call numbers in the order they are made.
CallStart(c, w, a) ==
  /\ pc[c] = "idle"
  /\ IF c = 1 THEN TRUE ELSE pc[c - 1] # "idle"
  /\ pc' = [pc EXCEPT ![c] = "key"]
  /\ wrapper' = [wrapper EXCEPT ![c] = w]
  /\ args' = [args EXCEPT ![c] = a]
  /\ prior' = [prior EXCEPT ![c] = {c1 \in Calls : final[c1].st = "applied"}]
  /\ UNCHANGED <<ser, now, db, caches, key, awaits, gen, read, res, touch, final, cl, cleanups>>

\* cache[cacheKey] = generator(...args): the generator runs on every call
KeyDoneMemoryOverwrite(c) ==
  /\ pc[c] = "key"
  /\ Config(c).cacheTarget = "memory"
  /\ LET cacheKey == NewKey(c)
     IN /\ key' = [key EXCEPT ![c] = cacheKey]
        /\ caches' = [caches EXCEPT ![Config(c).cache][cacheKey] = GenPromise(c)]
  /\ gen' = [gen EXCEPT ![c] = [st |-> "pending", shape |-> "none"]]
  /\ awaits' = [awaits EXCEPT ![c] = GenPromise(c)]
  /\ pc' = [pc EXCEPT ![c] = "run"]
  /\ UNCHANGED <<ser, now, db, wrapper, args, read, res, touch, final, prior, cl, cleanups>>

\* a promise that has rejected is replaced: the generator is tried again
KeyDoneMemoryRetry(c) ==
  /\ pc[c] = "key"
  /\ Config(c).cacheTarget = "memory"
  /\ LET cacheKey == NewKey(c)
         cache == Config(c).cache
     IN /\ key' = [key EXCEPT ![c] = cacheKey]
        /\ IF \/ caches[cache][cacheKey] = NoPromise
              \/ PromiseState(caches[cache][cacheKey]).t = "rej"
             THEN /\ gen' = [gen EXCEPT ![c] = [st |-> "pending", shape |-> "none"]]
                  /\ caches' = [caches EXCEPT ![cache][cacheKey] = GenPromise(c)]
                  /\ awaits' = [awaits EXCEPT ![c] = GenPromise(c)]
             ELSE /\ awaits' = [awaits EXCEPT ![c] = caches[cache][cacheKey]]
                  /\ UNCHANGED <<gen, caches>>
  /\ pc' = [pc EXCEPT ![c] = "run"]
  /\ UNCHANGED <<ser, now, db, wrapper, args, read, res, touch, final, prior, cl, cleanups>>

\* the key is there, cacheTarget "memory": cache[cacheKey] ??= generator(...args)
KeyDoneMemory(c) ==
  /\ pc[c] = "key"
  /\ Config(c).cacheTarget = "memory"
  /\ LET cacheKey == NewKey(c)
         cache == Config(c).cache
     IN /\ key' = [key EXCEPT ![c] = cacheKey]
        /\ IF caches[cache][cacheKey] = NoPromise
             THEN /\ gen' = [gen EXCEPT ![c] = [st |-> "pending", shape |-> "none"]]
                  /\ caches' = [caches EXCEPT ![cache][cacheKey] = GenPromise(c)]
                  /\ awaits' = [awaits EXCEPT ![c] = GenPromise(c)]
             ELSE /\ awaits' = [awaits EXCEPT ![c] = caches[cache][cacheKey]]
                  /\ UNCHANGED <<gen, caches>>
  /\ pc' = [pc EXCEPT ![c] = "run"]
  /\ UNCHANGED <<ser, now, db, wrapper, args, read, res, touch, final, prior, cl, cleanups>>

\* resultPromise starts the generator next to the read whatever
\* resolveInParallel is
KeyDonePersistentEager(c) ==
  /\ pc[c] = "key"
  /\ Config(c).cacheTarget # "memory"
  /\ LET cacheKey == NewKey(c)
     IN /\ key' = [key EXCEPT ![c] = cacheKey]
        /\ caches' = IF Config(c).cacheTarget = "both"
                       THEN [caches EXCEPT ![Config(c).cache][cacheKey] = ResultPromise(c)]
                       ELSE caches
  /\ read' = [read EXCEPT ![c] = "pending"]
  /\ gen' = [gen EXCEPT ![c] = [st |-> "pending", shape |-> "none"]]
  /\ res' = [res EXCEPT ![c] = Pending]
  /\ awaits' = [awaits EXCEPT ![c] = ResultPromise(c)]
  /\ pc' = [pc EXCEPT ![c] = "run"]
  /\ UNCHANGED <<ser, now, db, wrapper, args, touch, final, prior, cl, cleanups>>

\* the branch for "idb" and "both" taken whatever cacheTarget is
KeyDonePersistentAnyTarget(c) ==
  /\ pc[c] = "key"
  /\ LET cacheKey == NewKey(c)
     IN /\ key' = [key EXCEPT ![c] = cacheKey]
        /\ caches' = IF Config(c).cacheTarget = "both"
                       THEN [caches EXCEPT ![Config(c).cache][cacheKey] = ResultPromise(c)]
                       ELSE caches
  /\ read' = [read EXCEPT ![c] = "pending"]
  /\ gen' = [gen EXCEPT ![c] = IF Config(c).resolveInParallel
                                 THEN [st |-> "pending", shape |-> "none"] ELSE NoGen]
  /\ res' = [res EXCEPT ![c] = Pending]
  /\ awaits' = [awaits EXCEPT ![c] = ResultPromise(c)]
  /\ pc' = [pc EXCEPT ![c] = "run"]
  /\ UNCHANGED <<ser, now, db, wrapper, args, touch, final, prior, cl, cleanups>>

\* with a promise in the slot of the map the generator is not started
KeyDonePersistentOncePerKey(c) ==
  /\ pc[c] = "key"
  /\ Config(c).cacheTarget # "memory"
  /\ LET cacheKey == NewKey(c)
     IN /\ key' = [key EXCEPT ![c] = cacheKey]
        /\ caches' = IF Config(c).cacheTarget = "both"
                       THEN [caches EXCEPT ![Config(c).cache][cacheKey] = ResultPromise(c)]
                       ELSE caches
        /\ gen' = [gen EXCEPT ![c] =
                     IF /\ Config(c).resolveInParallel
                        /\ caches[Config(c).cache][cacheKey] = NoPromise
                       THEN [st |-> "pending", shape |-> "none"] ELSE NoGen]
  /\ read' = [read EXCEPT ![c] = "pending"]
  /\ res' = [res EXCEPT ![c] = Pending]
  /\ awaits' = [awaits EXCEPT ![c] = ResultPromise(c)]
  /\ pc' = [pc EXCEPT ![c] = "run"]
  /\ UNCHANGED <<ser, now, db, wrapper, args, touch, final, prior, cl, cleanups>>

\* resultPromise is stored in the cache whatever cacheTarget is
KeyDonePersistentWritesMap(c) ==
  /\ pc[c] = "key"
  /\ Config(c).cacheTarget # "memory"
  /\ LET cacheKey == NewKey(c)
     IN /\ key' = [key EXCEPT ![c] = cacheKey]
        /\ caches' = [caches EXCEPT ![Config(c).cache][cacheKey] = ResultPromise(c)]
  /\ read' = [read EXCEPT ![c] = "pending"]
  /\ gen' = [gen EXCEPT ![c] = IF Config(c).resolveInParallel
                                 THEN [st |-> "pending", shape |-> "none"] ELSE NoGen]
  /\ res' = [res EXCEPT ![c] = Pending]
  /\ awaits' = [awaits EXCEPT ![c] = ResultPromise(c)]
  /\ pc' = [pc EXCEPT ![c] = "run"]
  /\ UNCHANGED <<ser, now, db, wrapper, args, touch, final, prior, cl, cleanups>>

\* the key is there, cacheTarget "idb" or "both": resultPromise starts with
\* readFromCache and, when resolveInParallel, the generator; "both" stores
\* resultPromise in the cache
KeyDonePersistent(c) ==
  /\ pc[c] = "key"
  /\ Config(c).cacheTarget # "memory"
  /\ LET cacheKey == NewKey(c)
     IN /\ key' = [key EXCEPT ![c] = cacheKey]
        /\ caches' = IF Config(c).cacheTarget = "both"
                       THEN [caches EXCEPT ![Config(c).cache][cacheKey] = ResultPromise(c)]
                       ELSE caches
  /\ read' = [read EXCEPT ![c] = "pending"]
  /\ gen' = [gen EXCEPT ![c] = IF Config(c).resolveInParallel
                                 THEN [st |-> "pending", shape |-> "none"] ELSE NoGen]
  /\ res' = [res EXCEPT ![c] = Pending]
  /\ awaits' = [awaits EXCEPT ![c] = ResultPromise(c)]
  /\ pc' = [pc EXCEPT ![c] = "run"]
  /\ UNCHANGED <<ser, now, db, wrapper, args, touch, final, prior, cl, cleanups>>

\* nothing is written for a result that is not truthy
SettleSkipAbsent(c, v) ==
  /\ res' = [res EXCEPT ![c] = Fulfilled(v)]
  /\ final' = IF Truthy(v)
                THEN [final EXCEPT ![c] =
                        PendingWrite(ResultsToCache(KeyOf(c), Config(c).namespace, v))]
                ELSE final

\* resultPromise got its result: writeToCache(resultsToCache); return result
Settle(c, v) ==
  /\ res' = [res EXCEPT ![c] = Fulfilled(v)]
  /\ final' = [final EXCEPT ![c] =
                 PendingWrite(ResultsToCache(KeyOf(c), Config(c).namespace, v))]

\* Promise.all in place of Promise.any: the value of the generator is held
\* back while the read is under way
GenResolveAfterRead(c, shape) ==
  /\ gen[c].st = "pending"
  /\ gen' = [gen EXCEPT ![c] = [st |-> "ok", shape |-> shape]]
  /\ IF res[c] = Pending /\ read[c] # "pending"
       THEN Settle(c, GenValue(c, shape))
       ELSE UNCHANGED <<res, final>>
  /\ UNCHANGED <<ser, now, db, caches, pc, wrapper, args, key, awaits, read, touch, prior, cl, cleanups>>

\* the generator of call c resolves
GenResolve(c, shape) ==
  /\ gen[c].st = "pending"
  /\ gen' = [gen EXCEPT ![c] = [st |-> "ok", shape |-> shape]]
  /\ IF res[c] = Pending
       THEN Settle(c, GenValue(c, shape))
       ELSE UNCHANGED <<res, final>>
  /\ UNCHANGED <<ser, now, db, caches, pc, wrapper, args, key, awaits, read, touch, prior, cl, cleanups>>

\* the generator rejects and an entry without members is written all the same
GenRejectPlaceholder(c) ==
  /\ gen[c].st = "pending"
  /\ gen' = [gen EXCEPT ![c] = [st |-> "err", shape |-> "none"]]
  /\ IF res[c] = Pending /\ (~Config(c).resolveInParallel \/ read[c] \in {"miss", "fail"})
       THEN /\ res' = [res EXCEPT ![c] = Rejected(IF Config(c).resolveInParallel
                                                    THEN AggregateError(c) ELSE GenError(c))]
            /\ final' = [final EXCEPT ![c] =
                           PendingWrite(ResultsToCache(KeyOf(c), Config(c).namespace,
                                                       GenValue(c, "undef")))]
       ELSE UNCHANGED <<res, final>>
  /\ UNCHANGED <<ser, now, db, caches, pc, wrapper, args, key, awaits, read, touch, prior, cl, cleanups>>

\* Promise.race in place of Promise.any: the first rejection settles the call
GenRejectImmediately(c) ==
  /\ gen[c].st = "pending"
  /\ gen' = [gen EXCEPT ![c] = [st |-> "err", shape |-> "none"]]
  /\ res' = IF res[c] # Pending THEN res
            ELSE [res EXCEPT ![c] = Rejected(GenError(c))]
  /\ UNCHANGED <<ser, now, db, caches, pc, wrapper, args, key, awaits, read, touch, final, prior, cl, cleanups>>

\* the generator of call c rejects: Promise.any rejects with an
\* AggregateError once the read side has rejected too; the sequential
\* expression throws the error itself
GenReject(c) ==
  /\ gen[c].st = "pending"
  /\ gen' = [gen EXCEPT ![c] = [st |-> "err", shape |-> "none"]]
  /\ res' = IF res[c] # Pending THEN res
            ELSE IF ~Config(c).resolveInParallel
              THEN [res EXCEPT ![c] = Rejected(GenError(c))]
            ELSE IF read[c] \in {"miss", "fail"}
              THEN [res EXCEPT ![c] = Rejected(AggregateError(c))]
            ELSE res
  /\ UNCHANGED <<ser, now, db, caches, pc, wrapper, args, key, awaits, read, touch, final, prior, cl, cleanups>>

\* the read side without "?? Promise.reject()": undefined wins the race
ReadUndefinedWins(c, how) ==
  /\ read' = [read EXCEPT ![c] = how]
  /\ IF Config(c).resolveInParallel
       THEN /\ res' = IF res[c] = Pending
                        THEN [res EXCEPT ![c] = Fulfilled(EntryValue(NoEntry))]
                        ELSE res
            /\ UNCHANGED gen
       ELSE /\ gen' = [gen EXCEPT ![c] = [st |-> "pending", shape |-> "none"]]
            /\ UNCHANGED res
  /\ UNCHANGED <<touch, final>>

\* readFromCache yields undefined: no record, or an error that was caught
ReadUndefined(c, how) ==
  /\ read' = [read EXCEPT ![c] = how]
  /\ IF Config(c).resolveInParallel
       THEN /\ res' = IF res[c] = Pending /\ gen[c].st = "err"
                        THEN [res EXCEPT ![c] = Rejected(AggregateError(c))]
                        ELSE res
            /\ UNCHANGED gen
       ELSE /\ gen' = [gen EXCEPT ![c] = [st |-> "pending", shape |-> "none"]]
            /\ UNCHANGED res
  /\ UNCHANGED <<touch, final>>

\* the get request looks under another key and never finds the record
ReadOkNotFound(c) ==
  /\ read[c] = "pending"
  /\ cl.pc # "scan"
  /\ ReadUndefined(c, "miss")
  /\ UNCHANGED <<ser, now, db, caches, pc, wrapper, args, key, awaits, prior, cl, cleanups>>

\* the get request of readFromCache succeeds; a record that is found is
\* written back by writeToCache(result)
ReadOk(c) ==
  /\ read[c] = "pending"
  /\ cl.pc # "scan"
  /\ LET result == db[KeyOf(c)]
     IN IF result # NoEntry
          THEN /\ read' = [read EXCEPT ![c] = "hit"]
               /\ touch' = [touch EXCEPT ![c] = PendingWrite(result)]
               /\ IF res[c] = Pending
                    THEN Settle(c, EntryValue(result))
                    ELSE UNCHANGED <<res, final>>
               /\ UNCHANGED gen
          ELSE ReadUndefined(c, "miss")
  /\ UNCHANGED <<ser, now, db, caches, pc, wrapper, args, key, awaits, prior, cl, cleanups>>

\* the error of a store failure, were it to reach a caller
StoreError(c) == [kind |-> "store", by |-> c]

\* readFromCache without its catch: the sequential await throws the error
ReadFailThrown(c) ==
  /\ read[c] = "pending"
  /\ IF Config(c).resolveInParallel
       THEN ReadUndefined(c, "fail")
       ELSE /\ read' = [read EXCEPT ![c] = "fail"]
            /\ res' = [res EXCEPT ![c] = Rejected(StoreError(c))]
            /\ UNCHANGED <<gen, touch, final>>
  /\ UNCHANGED <<ser, now, db, caches, pc, wrapper, args, key, awaits, prior, cl, cleanups>>

\* opening the database or the get request fails: console.warn, undefined
ReadFail(c) ==
  /\ read[c] = "pending"
  /\ ReadUndefined(c, "fail")
  /\ UNCHANGED <<ser, now, db, caches, pc, wrapper, args, key, awaits, prior, cl, cleanups>>

\* store.put(value): last-accessed stays what the value brought along
PutKeepTime(value) == [db EXCEPT ![value.id] = value]

\* store.put({ ...value, "last-accessed": Date.now() / 60000 }) and the
\* transaction completes
Put(value) == [db EXCEPT ![value.id] = [value EXCEPT !.la = now]]

\* the writeToCache that readFromCache started completes
TouchApply(c) ==
  /\ touch[c].st = "pending"
  /\ cl.pc # "scan"
  /\ db' = Put(touch[c].value)
  /\ touch' = [touch EXCEPT ![c] = [st |-> "done", value |-> NoEntry]]
  /\ UNCHANGED <<ser, now, caches, pc, wrapper, args, key, awaits, gen, read, res, final, prior, cl, cleanups>>

\* the writeToCache that readFromCache started fails: console.warn
TouchFail(c) ==
  /\ touch[c].st = "pending"
  /\ touch' = [touch EXCEPT ![c] = [st |-> "done", value |-> NoEntry]]
  /\ UNCHANGED <<ser, now, db, caches, pc, wrapper, args, key, awaits, gen, read, res, final, prior, cl, cleanups>>

\* the writeToCache(resultsToCache) of resultPromise completes
FinalApply(c) ==
  /\ final[c].st = "pending"
  /\ cl.pc # "scan"
  /\ db' = Put(final[c].value)
  /\ final' = [final EXCEPT ![c] = [st |-> "applied", value |-> NoEntry]]
  /\ UNCHANGED <<ser, now, caches, pc, wrapper, args, key, awaits, gen, read, res, touch, prior, cl, cleanups>>

\* the writeToCache(resultsToCache) of resultPromise fails: console.warn
FinalFail(c) ==
  /\ final[c].st = "pending"
  /\ final' = [final EXCEPT ![c] = [st |-> "failed", value |-> NoEntry]]
  /\ UNCHANGED <<ser, now, db, caches, pc, wrapper, args, key, awaits, gen, read, res, touch, prior, cl, cleanups>>

\* the wall clock advances, up to time last
Tick(last) ==
  /\ now < last
  /\ now' = now + 1
  /\ UNCHANGED <<ser, db, caches, callVars, cl, cleanups>>

(***************************************************************************)
(* simpleCleanup.  Its readwrite transaction on the object store excludes  *)
(* every other transaction on that store until it completes or aborts, so  *)
(* reads and writes of the wrappers wait while cl.pc = "scan"; an aborted  *)
(* transaction leaves the store as it was when the transaction started.    *)
(***************************************************************************)
\* the order of the records under an IndexedDB cursor: by key
KeyLess(k1, k2) == StrLess(Tail(k1), Tail(k2))

\* the keys the cursor has yet to reach
Ahead ==
  {k \in DOMAIN db : db[k] # NoEntry /\ (cl.cursor = <<>> \/ KeyLess(cl.cursor, k))}

\* value[LAST_ACCESSED_FIELD] ?? 0: writeToCache sets the field on every record
LastAccessed(value) == value.la

\* the test without the namespace
StaleAnyNamespace(value, namespace, nowMinutes, maxAgeMinutes) ==
  nowMinutes - LastAccessed(value) > maxAgeMinutes * TicksPerMinute

\* the test with >= in place of >
StaleAtThreshold(value, namespace, nowMinutes, maxAgeMinutes) ==
  /\ value.namespace = namespace
  /\ nowMinutes - LastAccessed(value) >= maxAgeMinutes * TicksPerMinute

\* value.namespace === namespace && now - lastAccessed > maxAgeMinutes
Stale(value, namespace, nowMinutes, maxAgeMinutes) ==
  /\ value.namespace = namespace
  /\ nowMinutes - LastAccessed(value) > maxAgeMinutes * TicksPerMinute

\* simpleCleanup(maxAgeMinutes, namespace) is called: it awaits openCacheDatabase
CleanupCall(maxAgeMinutes, namespace) ==
  /\ cl.pc = "idle"
  /\ cleanups < MaxCleanups
  /\ cleanups' = cleanups + 1
  /\ cl' = [IdleCleanup EXCEPT !.pc = "open", !.namespace = namespace,
                               !.maxAgeMinutes = maxAgeMinutes, !.saved = db]
  /\ UNCHANGED <<ser, now, db, caches, callVars>>

\* simpleCleanup without its try block
OpenFailureRethrown == "rejected"

\* what the promise of simpleCleanup does when openCacheDatabase rejects:
\* the catch block logs the error
OpenFailure == "resolved"

\* the database cannot be opened
CleanupOpenFail ==
  /\ cl.pc = "open"
  /\ cl' = [cl EXCEPT !.pc = "idle", !.settled = OpenFailure, !.outcome = "unopened"]
  /\ UNCHANGED <<ser, now, db, caches, callVars, cleanups>>

\* the database opens: the transaction starts, now is taken, the cursor is
\* requested and simpleCleanup returns
CleanupOpenOk ==
  /\ cl.pc = "open"
  /\ cl' = [cl EXCEPT !.pc = "scan", !.now = now, !.cursor = <<>>, !.saved = db,
                      !.settled = "resolved"]
  /\ UNCHANGED <<ser, now, db, caches, callVars, cleanups>>

\* the handler without cursor.delete()
CleanupVisitNoDelete ==
  /\ cl.pc = "scan"
  /\ Ahead # {}
  /\ cl' = [cl EXCEPT !.cursor =
               CHOOSE k1 \in Ahead : \A k2 \in Ahead : k2 = k1 \/ KeyLess(k1, k2)]
  /\ UNCHANGED <<ser, now, db, caches, callVars, cleanups>>

\* request.onsuccess with a cursor: delete the record if it is stale, continue
CleanupVisit ==
  /\ cl.pc = "scan"
  /\ Ahead # {}
  /\ LET k == CHOOSE k1 \in Ahead : \A k2 \in Ahead : k2 = k1 \/ KeyLess(k1, k2)
         value == db[k]
     IN /\ db' = IF Stale(value, cl.namespace, cl.now, cl.maxAgeMinutes)
                   THEN [db EXCEPT ![k] = NoEntry] ELSE db
        /\ cl' = [cl EXCEPT !.cursor = k]
  /\ UNCHANGED <<ser, now, caches, callVars, cleanups>>

\* request.onsuccess without a cursor: the scan is over, the transaction commits
CleanupCommit ==
  /\ cl.pc = "scan"
  /\ Ahead = {}
  /\ cl' = [cl EXCEPT !.pc = "idle", !.outcome = "committed"]
  /\ UNCHANGED <<ser, now, db, caches, callVars, cleanups>>

\* a request of the scan fails: the transaction aborts and its deletions
\* are undone; nothing reaches the caller, whose promise has resolved
CleanupAbort ==
  /\ cl.pc = "scan"
  /\ db' = cl.saved
  /\ cl' = [cl EXCEPT !.pc = "idle", !.outcome = "aborted"]
  /\ UNCHANGED <<ser, now, caches, callVars, cleanups>>

(***************************************************************************)
(* Wrappers with cacheTarget "memory".                                     *)
(***************************************************************************)
NextMemory ==
  \/ \E c \in Calls, w \in MemoryWrappers, a \in PlainArgs : CallStart(c, w, a)
  \/ \E c \in Calls : KeyDoneMemory(c)
  \/ \E c \in Calls : GenResolve(c, "obj")
  \/ \E c \in Calls : GenReject(c)

SpecMemory == InitWith(NMemoryCalls, EmptyStore, 0) /\ [][NextMemory]_vars

(***************************************************************************)
(* Wrappers with cacheTarget "both" and the object store.                  *)
(***************************************************************************)
Next ==
  \/ \E c \in Calls, w \in BothWrappers, a \in {1, 3} : CallStart(c, w, a)
  \/ \E c \in Calls : KeyDonePersistent(c)
  \/ \E c \in Calls : GenResolve(c, "obj")
  \/ \E c \in Calls : GenReject(c)
  \/ \E c \in Calls : ReadOk(c)
  \/ \E c \in Calls : ReadFail(c)
  \/ \E c \in Calls : TouchApply(c)
  \/ \E c \in Calls : TouchFail(c)
  \/ \E c \in Calls : FinalApply(c)
  \/ \E c \in Calls : FinalFail(c)

Spec == InitWith(NCalls, EmptyStore, 0) /\ [][Next]_vars

(***************************************************************************)
(* simpleCleanup on a store that earlier sessions have filled.             *)
(***************************************************************************)
\* the records writeToCache can have left under key k up to time t
PersistedEntries(k, t) ==
  {[id |-> k, namespace |-> ns, fields |-> [by |-> 0, shape |-> "obj"], la |-> la] :
     ns \in Namespaces, la \in 0..t}

PersistedStores(t) ==
  {store \in [AllKeys -> UNION {PersistedEntries(k, t) : k \in AllKeys} \cup {NoEntry}] :
     \A k \in AllKeys : store[k] = NoEntry \/ store[k].id = k}

InitCleanup == \E t \in 0..MaxTime : \E store \in PersistedStores(t) : InitWith(0, store, t)

NextCleanup ==
  \/ Tick(MaxTime)
  \/ \E m \in 0..MaxAgeArg, ns \in Namespaces : CleanupCall(m, ns)
  \/ CleanupOpenFail
  \/ CleanupOpenOk
  \/ CleanupVisit
  \/ CleanupCommit
  \/ CleanupAbort

SpecCleanup == InitCleanup /\ [][NextCleanup]_vars

\* the event loop delivers the events of the cursor request
FairCleanup == SpecCleanup /\ WF_vars(CleanupVisit) /\ WF_vars(CleanupCommit)

(***************************************************************************)
(* simpleCleanup next to calls of the wrappers.                            *)
(***************************************************************************)
NextShared ==
  \/ \E c \in Calls, w \in BothWrappers, a \in {1, 3} : CallStart(c, w, a)
  \/ \E c \in Calls : KeyDonePersistent(c)
  \/ \E c \in Calls : GenResolve(c, "obj")
  \/ \E c \in Calls : GenReject(c)
  \/ \E c \in Calls : ReadOk(c)
  \/ \E c \in Calls : ReadFail(c)
  \/ \E c \in Calls : TouchApply(c)
  \/ \E c \in Calls : TouchFail(c)
  \/ \E c \in Calls : FinalApply(c)
  \/ \E c \in Calls : FinalFail(c)
  \/ Tick(MaxSharedTime)
  \/ \E ns \in Namespaces : CleanupCall(0, ns)
  \/ CleanupOpenFail
  \/ CleanupOpenOk
  \/ CleanupVisit
  \/ CleanupCommit
  \/ CleanupAbort

SpecShared == InitWith(NSharedCalls, EmptyStore, 0) /\ [][NextShared]_vars

(***************************************************************************)
(* Wrappers of different configurations side by side: one with ignoreKeys  *)
(* and cacheTarget "memory", one with cacheTarget "idb".                   *)
(***************************************************************************)
ConfigWrappers == IgnoringWrappers \cup {w \in PersistentWrappers :
                                          /\ Wrappers[w].cacheTarget = "idb"
                                          /\ ~Wrappers[w].resolveInParallel}

NextConfig ==
  \/ \E c \in Calls, w \in ConfigWrappers, a \in IgnoredFieldArgs : CallStart(c, w, a)
  \/ \E c \in Calls : KeyDoneMemory(c)
  \/ \E c \in Calls : KeyDonePersistent(c)
  \/ \E c \in Calls : GenResolve(c, "obj")
  \/ \E c \in Calls : GenReject(c)
  \/ \E c \in Calls : ReadOk(c)
  \/ \E c \in Calls : ReadFail(c)
  \/ \E c \in Calls : TouchApply(c)
  \/ \E c \in Calls : TouchFail(c)
  \/ \E c \in Calls : FinalApply(c)
  \/ \E c \in Calls : FinalFail(c)

SpecConfig == InitWith(NConfigCalls, [k \in ConfigKeys |-> NoEntry], 0) /\ [][NextConfig]_vars

(***************************************************************************)
(* Generator results of every shape, with the clock running.               *)
(***************************************************************************)
ResultWrappers ==
  {w \in PersistentWrappers : Wrappers[w].cacheTarget = "idb" /\ ~Wrappers[w].resolveInParallel}

\* the key of the one argument list and the id a result can bring along
ResultKeys == {generateCacheKey(<<>>, ArgLists[3]), OwnId}

NextResults ==
  \/ \E c \in Calls, w \in ResultWrappers : CallStart(c, w, 3)
  \/ \E c \in Calls : KeyDonePersistent(c)
  \/ \E c \in Calls, shape \in ResultShapes : GenResolve(c, shape)
  \/ \E c \in Calls : GenReject(c)
  \/ \E c \in Calls : ReadOk(c)
  \/ \E c \in Calls : ReadFail(c)
  \/ \E c \in Calls : TouchApply(c)
  \/ \E c \in Calls : TouchFail(c)
  \/ \E c \in Calls : FinalApply(c)
  \/ \E c \in Calls : FinalFail(c)
  \/ Tick(MaxResultTime)

SpecResults == InitWith(NResultCalls, [k \in ResultKeys |-> NoEntry], 0) /\ [][NextResults]_vars

(***************************************************************************)
(* A wrapper with cacheTarget "both" and one with cacheTarget "idb" on the *)
(* same dedup map, called with the same arguments.                         *)
(***************************************************************************)
ModeWrappers ==
  {w \in PersistentWrappers :
     \/ Wrappers[w].cacheTarget = "both" /\ Wrappers[w].resolveInParallel
     \/ Wrappers[w].cacheTarget = "idb" /\ ~Wrappers[w].resolveInParallel}

NextModes ==
  \/ \E c \in Calls, w \in ModeWrappers : CallStart(c, w, 3)
  \/ \E c \in Calls : KeyDonePersistent(c)
  \/ \E c \in Calls : GenResolve(c, "obj")
  \/ \E c \in Calls : GenReject(c)
  \/ \E c \in Calls : ReadOk(c)
  \/ \E c \in Calls : ReadFail(c)
  \/ \E c \in Calls : TouchApply(c)
  \/ \E c \in Calls : TouchFail(c)
  \/ \E c \in Calls : FinalApply(c)
  \/ \E c \in Calls : FinalFail(c)

SpecModes == InitWith(NModeCalls, EmptyStore, 0) /\ [][NextModes]_vars

(***************************************************************************)
(* Direct calls of generateCacheKey: one ignoreKeys list and two argument  *)
(* lists, each of which is serialized and hashed once, in either order.    *)
(***************************************************************************)
\* the primitives that occur as members and as array elements
SerPrims == {Prim(<<"1">>), Prim(<<"2">>), Prim(<<"3">>)}

\* the members of an object: primitives, and the kinds that are never serialized
SerMembers == {Prim(<<"1">>), Prim(<<"2">>), Undef, Fn, Thenable}

\* the keys of an object, in insertion order
SerKeyOrders ==
  { <<>>, << <<"a">> >>, << <<"b">> >>, << <<"i">> >>, << <<"a">>, <<"b">> >>,
    << <<"b">>, <<"a">> >>, << <<"a">>, <<"i">> >> }

SerObjects ==
  UNION {{Obj(keys, vals) : vals \in [1..Len(keys) -> SerMembers]} : keys \in SerKeyOrders}

SerArrays == UNION {{Arr(items) : items \in [1..n -> SerPrims]} : n \in 0..MaxArrayLen}

\* { b: 2, a: 1, c: 3 }
ObjBAC ==
  Obj(<< <<"b">>, <<"a">>, <<"c">> >>, <<Prim(<<"2">>), Prim(<<"1">>), Prim(<<"3">>)>>)

\* { a: { c: 3, b: 2 }, d: 1 }
ObjNested ==
  Obj(<< <<"a">>, <<"d">> >>,
      <<Obj(<< <<"c">>, <<"b">> >>, <<Prim(<<"3">>), Prim(<<"2">>)>>), Prim(<<"1">>)>>)

\* { d: 1, a: { b: 2, c: 3 } }
ObjNestedReordered ==
  Obj(<< <<"d">>, <<"a">> >>,
      <<Prim(<<"1">>), Obj(<< <<"b">>, <<"c">> >>, <<Prim(<<"2">>), Prim(<<"3">>)>>)>>)

\* { a: { i: v, b: 2 } }, { a: { b: 2 } }, [{ i: v, a: 1 }, 2] and [2, { a: 1 }]
SerDeep ==
  {Obj(<< <<"a">> >>, <<Obj(<< <<"i">>, <<"b">> >>, <<v, Prim(<<"2">>)>>)>>) : v \in SerPrims}
    \cup {Arr(<<Obj(<< <<"i">>, <<"a">> >>, <<v, Prim(<<"1">>)>>), Prim(<<"2">>)>>) : v \in SerPrims}
    \cup {Obj(<< <<"a">> >>, <<Obj(<< <<"b">> >>, <<Prim(<<"2">>)>>)>>),
          Arr(<<Prim(<<"2">>), Obj(<< <<"a">> >>, <<Prim(<<"1">>)>>)>>)}

\* null, as String() shows it
Null == Prim(<<"n", "u", "l", "l">>)

\* the argument lists generateCacheKey is called with
SerArgLists ==
  {<<v>> : v \in SerObjects \cup SerArrays \cup SerDeep
                   \cup {ObjBAC, ObjNested, ObjNestedReordered, Null, Prim(<<"x">>)}}
    \cup {<<Prim(<<"x">>), v>> : v \in SerPrims}

SerIgnoreKeys == {<<>>, << <<"i">> >>}

\* a call that has not been made
NoOut == [strs |-> <<>>, key |-> <<>>]

InitSerialize ==
  /\ InitState(0, EmptyStore, 0)
  /\ \E ignoreKeys \in SerIgnoreKeys, args1 \in SerArgLists, args2 \in SerArgLists :
       ser = [ignoreKeys |-> ignoreKeys, args |-> <<args1, args2>>, out |-> <<NoOut, NoOut>>]

\* generateCacheKey(ser.ignoreKeys, ...ser.args[i]) is called and resolves;
\* strs keeps the strings stableSerialize returned for the arguments
GenerateCacheKeyCall(i) ==
  /\ i \in DOMAIN ser.args
  /\ ser.out[i] = NoOut
  /\ ser' = [ser EXCEPT !.out[i] =
               [strs |-> [j \in 1..Len(ser.args[i]) |->
                            stableSerialize(ser.args[i][j], ser.ignoreKeys)],
                key |-> generateCacheKey(ser.ignoreKeys, ser.args[i])]]
  /\ UNCHANGED <<now, db, caches, callVars, cl, cleanups>>

NextSerialize == \E i \in {1, 2} : GenerateCacheKeyCall(i)

SpecSerialize == InitSerialize /\ [][NextSerialize]_vars

(***************************************************************************)
(* Direct calls of generateCacheKey on argument lists that differ in how   *)
(* their values are nested or split across the arguments.                  *)
(***************************************************************************)
\* ([1, 2]), (1, 2), ([2, 1]), ([[1], 2]), (1), ({ a: { b: 2, c: 3 } }),
\* ({ a: { b: 2 }, c: 3 }), ({ a: 1 }) and ("x")
StructArgLists ==
  { <<Arr(<<Prim(<<"1">>), Prim(<<"2">>)>>)>>,
    <<Prim(<<"1">>), Prim(<<"2">>)>>,
    <<Arr(<<Prim(<<"2">>), Prim(<<"1">>)>>)>>,
    <<Arr(<<Arr(<<Prim(<<"1">>)>>), Prim(<<"2">>)>>)>>,
    <<Prim(<<"1">>)>>,
    <<Obj(<< <<"a">> >>,
          <<Obj(<< <<"b">>, <<"c">> >>, <<Prim(<<"2">>), Prim(<<"3">>)>>)>>)>>,
    <<Obj(<< <<"a">>, <<"c">> >>,
          <<Obj(<< <<"b">> >>, <<Prim(<<"2">>)>>), Prim(<<"3">>)>>)>>,
    <<Obj(<< <<"a">> >>, <<Prim(<<"1">>)>>)>>,
    <<Prim(<<"x">>)>> }

InitStructure ==
  /\ InitState(0, EmptyStore, 0)
  /\ \E args1 \in StructArgLists, args2 \in StructArgLists :
       ser = [ignoreKeys |-> <<>>, args |-> <<args1, args2>>, out |-> <<NoOut, NoOut>>]

SpecStructure == InitStructure /\ [][NextSerialize]_vars

(***************************************************************************)
(* Properties.                                                             *)
(***************************************************************************)
\* the calls that have their key, went to dedup map m and got key k
Group(m, k) == {c \in Calls : pc[c] = "run" /\ Config(c).cache = m /\ KeyOf(c) = k}

\* the calls that have invoked the generator
Invokers(group) == {c \in group : gen[c].st # "none"}

\* C1: in cacheTarget "memory", the calls that share a dedup map and a key
\* invoke the generator exactly once between them, in every interleaving of
\* their key computations, and each of them returns the promise of that one
\* invocation, so that it settles with that invocation's value.
C1_MemoryDedup ==
  \A m \in CacheNames, k \in DOMAIN db :
    LET group == {c \in Group(m, k) : Config(c).cacheTarget = "memory"}
    IN group # {} =>
         /\ Cardinality(Invokers(group)) = 1
         /\ \A c \in group, g \in Invokers(group) :
              /\ awaits[c] = GenPromise(g)
              /\ Outcome(c) = PromiseState(GenPromise(g))

\* three calls of two wrappers, with argument lists that differ in key order,
\* have resolved with the value of the first call's generator
C1_Witness ==
  \E c1, c2, c3 \in Calls :
    /\ c1 < c2 /\ c2 < c3
    /\ wrapper[c1] # wrapper[c2] /\ args[c1] # args[c3]
    /\ \A c \in {c1, c2, c3} : Outcome(c) = Fulfilled(GenValue(c1, "obj"))

\* the calls that have their key, were made through wrapper w and got key k
SameCall(w, k) == {c \in Calls : pc[c] = "run" /\ wrapper[c] = w /\ key[c] = k}

\* C2: in cacheTarget "both", for resolveInParallel true and false alike, the
\* calls of one wrapper with one key share one computation: at most one
\* generator invocation for the key is in flight at any time, and the calls
\* that have resolved have resolved with the same value.
C2_BothDedup ==
  \A w \in BothWrappers, k \in DOMAIN db :
    /\ Cardinality({c \in SameCall(w, k) : gen[c].st = "pending"}) <= 1
    /\ \A c1, c2 \in SameCall(w, k) :
         Outcome(c1).t = "val" /\ Outcome(c2).t = "val" => Outcome(c1) = Outcome(c2)

\* the earlier calls of the same wrapped function with the same key whose
\* resultPromise write had completed when call c was made
Earlier(c) == {c1 \in prior[c] : wrapper[c1] = wrapper[c] /\ key[c1] = key[c]}

\* call c is the second of two sequential calls with resolveInParallel = false
AfterWrite(c) ==
  /\ pc[c] = "run"
  /\ ~Config(c).resolveInParallel
  /\ Earlier(c) # {}

C4_OriginalError ==
  \A c \in Calls :
    gen[c].st = "err" /\ Outcome(c).t = "rej" => Outcome(c) = Rejected(GenError(c))

\* C5: a call whose computation fails (its resultPromise rejects) has
\* started no write to the store, neither the write of a result nor the
\* rewrite of a record it read.
C5_FailedCallWritesNothing ==
  \A c \in Calls : res[c].t = "rej" => touch[c] = NoWrite /\ final[c] = NoWrite

\* a call has failed, in parallel mode after a miss, and the only record
\* under its key is the one another call wrote
C5_Witness ==
  \E c, c1 \in Calls :
    /\ res[c] = Rejected(AggregateError(c)) /\ read[c] = "miss"
    /\ key[c1] = key[c] /\ final[c1].st = "applied"
    /\ db[key[c]].fields.by = c1

\* what resultPromise of call c does on a cache miss, from the generator alone
MissOutcome(c) ==
  CASE gen[c].st = "ok" -> Fulfilled(GenValue(c, gen[c].shape))
    [] gen[c].st = "err" ->
         Rejected(IF Config(c).resolveInParallel THEN AggregateError(c) ELSE GenError(c))
    [] OTHER -> Pending

\* C6: a failure of a store operation never reaches the caller: after a
\* failed read the call does what it does on a miss (the generator decides),
\* after a failed write the call keeps the value it resolved with, and a call
\* only ever rejects with what the generator's rejection produced.
C6_StoreFailureAbsorbed ==
  \A c \in Calls :
    /\ read[c] = "fail" => res[c] = MissOutcome(c)
    /\ final[c].st = "failed" => Outcome(c).t = "val"
    /\ Outcome(c).t = "rej" => gen[c].st = "err" /\ Outcome(c).e.kind # "store"

\* a sequential call whose read failed and whose write failed has resolved
\* with the generator's value
C6_Witness ==
  \E c \in Calls :
    /\ pc[c] = "run"
    /\ ~Config(c).resolveInParallel
    /\ read[c] = "fail" /\ final[c].st = "failed"
    /\ Outcome(c) = Fulfilled(GenValue(c, "obj"))

\* now - lastAccessed of a record, in ticks, as the running cleanup sees it
Age(value) == cl.now - LastAccessed(value)

\* C7: a step of simpleCleanup(maxAgeMinutes, ns) leaves every record of
\* another namespace as it is, whatever its age and whatever the wrappers
\* have in flight.
C7_OtherNamespaceKept ==
  [][cl.pc = "scan" =>
       \A k \in DOMAIN db :
         db[k] # NoEntry /\ db[k].namespace # cl.namespace => db'[k] = db[k]]_vars

\* a cleanup has run over a record of another namespace that is older than
\* maxAgeMinutes, next to a call of a wrapper, and the record is still there
C7_Witness ==
  /\ cl.outcome = "committed"
  /\ \E k \in DOMAIN db :
       /\ db[k] # NoEntry /\ db[k] = cl.saved[k]
       /\ db[k].namespace # cl.namespace
       /\ Age(db[k]) > cl.maxAgeMinutes * TicksPerMinute
  /\ \E c \in Calls : pc[c] = "run"

\* C8: the age test is strict: after a scan, a record of the namespace whose
\* age was exactly maxAgeMinutes is still there and one whose age was
\* maxAgeMinutes + 1 is gone.
C8_StrictAgeTest ==
  cl.outcome = "committed" =>
    \A k \in DOMAIN db :
      cl.saved[k] # NoEntry /\ cl.saved[k].namespace = cl.namespace =>
        /\ Age(cl.saved[k]) = cl.maxAgeMinutes * TicksPerMinute => db[k] = cl.saved[k]
        /\ Age(cl.saved[k]) = (cl.maxAgeMinutes + 1) * TicksPerMinute => db[k] = NoEntry

\* one scan has kept a record aged exactly maxAgeMinutes and deleted one
\* aged maxAgeMinutes + 1
C8_Witness ==
  /\ cl.outcome = "committed"
  /\ \E k1, k2 \in DOMAIN db :
       /\ cl.saved[k1] # NoEntry /\ cl.saved[k1].namespace = cl.namespace
       /\ Age(cl.saved[k1]) = cl.maxAgeMinutes * TicksPerMinute
       /\ db[k1] = cl.saved[k1]
       /\ cl.saved[k2] # NoEntry /\ cl.saved[k2].namespace = cl.namespace
       /\ Age(cl.saved[k2]) = (cl.maxAgeMinutes + 1) * TicksPerMinute
       /\ db[k2] = NoEntry

\* the store after a scan: the records of the namespace that were older
\* than maxAgeMinutes are gone, every other record is as it was
Scanned ==
  \A k \in DOMAIN db :
    db[k] = IF /\ cl.saved[k] # NoEntry
               /\ cl.saved[k].namespace = cl.namespace
               /\ Age(cl.saved[k]) > cl.maxAgeMinutes * TicksPerMinute
            THEN NoEntry ELSE cl.saved[k]

\* C9: a scan that runs with no concurrent writes comes to an end, and unless
\* its transaction was aborted it has then deleted every record of the
\* namespace older than maxAgeMinutes and left the others untouched.
C9_ScanDeletesStale ==
  (cl.pc = "scan") ~> (cl.pc = "idle" /\ (cl.outcome = "committed" => Scanned))

\* a scan has deleted a stale record of the namespace and kept a fresh one
C9_Witness ==
  /\ cl.outcome = "committed"
  /\ \E k1, k2 \in DOMAIN db :
       /\ cl.saved[k1] # NoEntry /\ db[k1] = NoEntry
       /\ db[k2] # NoEntry /\ db[k2] = cl.saved[k2] /\ db[k2].namespace = cl.namespace

\* C10: the promise of simpleCleanup never rejects, and when the database
\* could not be opened or the scan failed the promise has resolved and the
\* store is as it was.
C10_CleanupNeverThrows ==
  /\ cl.settled # "rejected"
  /\ cl.pc = "idle" /\ cl.outcome \in {"unopened", "aborted"} =>
       cl.settled = "resolved" /\ db = cl.saved

\* a scan failed after its cursor had passed a stale record of the
\* namespace, and the record is in the store
C10_Witness ==
  /\ cl.outcome = "aborted"
  /\ cl.settled = "resolved"
  /\ \E k \in DOMAIN db :
       /\ k = cl.cursor
       /\ db[k] # NoEntry
       /\ db[k].namespace = cl.namespace
       /\ Age(db[k]) > cl.maxAgeMinutes * TicksPerMinute

(***************************************************************************)
(* Properties of stableSerialize and generateCacheKey.                     *)
(***************************************************************************)
\* the direct call i has resolved
Done(i) == ser.out[i] # NoOut

KeySet(object) == {object.keys[i] : i \in 1..Len(object.keys)}

\* x and y are structurally equal: the same primitive, arrays with
\* structurally equal elements at the same places, objects with the same keys
\* and structurally equal members, whatever the insertion order
RECURSIVE StructEq(_, _)
StructEq(x, y) ==
  IF x.t # y.t THEN FALSE
  ELSE IF x.t = "arr"
    THEN /\ Len(x.items) = Len(y.items)
         /\ \A i \in 1..Len(x.items) : StructEq(x.items[i], y.items[i])
  ELSE IF x.t = "obj"
    THEN /\ KeySet(x) = KeySet(y)
         /\ \A k \in KeySet(x) : StructEq(Member(x, k), Member(y, k))
  ELSE x = y

StructEqLists(xs, ys) ==
  /\ Len(xs) = Len(ys)
  /\ \A i \in 1..Len(xs) : StructEq(xs[i], ys[i])

\* C11: generateCacheKey is deterministic: two calls with the same ignoreKeys
\* and structurally equal argument lists (same keys and values, in any key
\* insertion order) return the same key, in whatever order the calls are made.
C11_KeyDeterministic ==
  (Done(1) /\ Done(2) /\ StructEqLists(ser.args[1], ser.args[2]))
    => ser.out[1].key = ser.out[2].key

\* both calls have returned for two objects that hold the same two members in
\* different insertion orders, under a non-empty ignoreKeys
C11_Witness ==
  /\ Done(1) /\ Done(2)
  /\ ser.ignoreKeys # <<>>
  /\ ser.args[1] # ser.args[2]
  /\ StructEqLists(ser.args[1], ser.args[2])
  /\ ser.args[1][1].t = "obj" /\ Len(ser.args[1][1].keys) = 2

\* name is one of ignoreKeys
Ignored(name, ignoreKeys) == \E i \in 1..Len(ignoreKeys) : ignoreKeys[i] = name

\* objects x and y have the same members under every key not in ignoreKeys
EqualOutside(x, y, ignoreKeys) ==
  /\ x.t = "obj" /\ y.t = "obj"
  /\ \A k \in KeySet(x) \cup KeySet(y) :
       Ignored(k, ignoreKeys) \/
         (k \in KeySet(x) /\ k \in KeySet(y) /\ StructEq(Member(x, k), Member(y, k)))

\* the string has a "name:" pair
Mentions(str, name) ==
  \E p \in 1..Len(str) :
    /\ p + Len(name) <= Len(str)
    /\ SubSeq(str, p, p + Len(name)) = name \o <<":">>

\* C12: changing only the values of the fields in ignoreKeys never changes
\* the key: two objects that are equal on every key not in ignoreKeys get the
\* same serialized string and the same key, and no key of ignoreKeys appears
\* in the serialized string.
C12_IgnoredFieldsDoNotCount ==
  (/\ Done(1) /\ Done(2)
   /\ Len(ser.args[1]) = 1 /\ Len(ser.args[2]) = 1
   /\ EqualOutside(ser.args[1][1], ser.args[2][1], ser.ignoreKeys))
    => /\ ser.out[1].strs = ser.out[2].strs
       /\ ser.out[1].key = ser.out[2].key
       /\ \A i \in 1..Len(ser.ignoreKeys) : ~Mentions(ser.out[1].strs[1], ser.ignoreKeys[i])

\* x and y are objects with the same keys that differ in exactly one member,
\* and there in two primitives with different string forms
OneFieldDiffers(x, y) ==
  /\ x.t = "obj" /\ y.t = "obj"
  /\ KeySet(x) = KeySet(y)
  /\ \E k \in KeySet(x) :
       /\ Member(x, k).t = "prim" /\ Member(y, k).t = "prim"
       /\ Member(x, k).s # Member(y, k).s
       /\ \A k2 \in KeySet(x) \ {k} : Member(x, k2) = Member(y, k2)

\* the argument lists differ in one field of one argument or in one
\* primitive argument
OneValueDiffers(xs, ys) ==
  /\ Len(xs) = Len(ys)
  /\ \E i \in 1..Len(xs) :
       /\ \/ OneFieldDiffers(xs[i], ys[i])
          \/ xs[i].t = "prim" /\ ys[i].t = "prim" /\ xs[i].s # ys[i].s
       /\ \A j \in 1..Len(xs) : j = i \/ xs[j] = ys[j]

\* C13: with an empty ignoreKeys, two argument lists that differ in the value
\* of one field or of one primitive argument (primitives whose string forms
\* differ) serialize to different strings and, the hash being injective, get
\* different keys.
C13_DifferentValuesDifferentKeys ==
  (/\ Done(1) /\ Done(2)
   /\ ser.ignoreKeys = <<>>
   /\ OneValueDiffers(ser.args[1], ser.args[2]))
    => /\ Join(ser.out[1].strs, <<",">>) # Join(ser.out[2].strs, <<",">>)
       /\ ser.out[1].key # ser.out[2].key

\* { a: 1, i: 1 } and { a: 1, i: 2 } have got their keys with nothing ignored
C13_Witness ==
  /\ Done(1) /\ Done(2)
  /\ ser.ignoreKeys = <<>>
  /\ ser.args[1] = <<Obj(<< <<"a">>, <<"i">> >>, <<Prim(<<"1">>), Prim(<<"1">>)>>)>>
  /\ ser.args[2] = <<Obj(<< <<"a">>, <<"i">> >>, <<Prim(<<"1">>), Prim(<<"2">>)>>)>>
  /\ ser.out[1].key # ser.out[2].key

\* the number of places of xs that hold v
Count(xs, v) == Cardinality({i \in 1..Len(xs) : xs[i] = v})

\* ys is a permutation of xs
Permutation(xs, ys) ==
  /\ Len(xs) = Len(ys)
  /\ \A i \in 1..Len(xs) : Count(xs, xs[i]) = Count(ys, xs[i])

\* str is the strings of parts, in lexical order, joined with sep
SortedJoin(str, parts, sep) ==
  \E zs \in [1..Len(parts) -> {parts[i] : i \in 1..Len(parts)}] :
    /\ Permutation(parts, zs)
    /\ \A i, j \in 1..Len(zs) : i < j => ~StrLess(zs[j], zs[i])
    /\ str = Join(zs, sep)

\* the argument list is one array of primitives
PrimArray(xs) ==
  /\ Len(xs) = 1 /\ xs[1].t = "arr"
  /\ \A i \in 1..Len(xs[1].items) : xs[1].items[i].t = "prim"

\* the string forms of the elements of an array of primitives
ItemStrings(array) == [i \in 1..Len(array.items) |-> array.items[i].s]

\* C14: stableSerialize does not see the order of an array: for an array of
\* primitives and every permutation of it the result is the same string, the
\* string forms of the elements sorted lexically and joined with ","; [3, 1, 2]
\* gives "1,2,3".
C14_ArrayOrderInsensitive ==
  /\ \A i \in {1, 2} :
       (Done(i) /\ PrimArray(ser.args[i])) =>
         /\ SortedJoin(ser.out[i].strs[1], ItemStrings(ser.args[i][1]), <<",">>)
         /\ ser.args[i][1] = Arr(<<Prim(<<"3">>), Prim(<<"1">>), Prim(<<"2">>)>>)
              => ser.out[i].strs[1] = <<"1", ",", "2", ",", "3">>
  /\ (/\ Done(1) /\ Done(2)
      /\ PrimArray(ser.args[1]) /\ PrimArray(ser.args[2])
      /\ Permutation(ser.args[1][1].items, ser.args[2][1].items))
       => ser.out[1].strs = ser.out[2].strs

\* [3, 1, 2] and [2, 3, 1] have been serialized
C14_Witness ==
  /\ Done(1) /\ Done(2)
  /\ ser.args[1] = <<Arr(<<Prim(<<"3">>), Prim(<<"1">>), Prim(<<"2">>)>>)>>
  /\ ser.args[2] = <<Arr(<<Prim(<<"2">>), Prim(<<"3">>), Prim(<<"1">>)>>)>>

\* the argument list is one object whose members are all primitives and
\* whose keys are not in ignoreKeys
PlainObject(xs, ignoreKeys) ==
  /\ Len(xs) = 1 /\ xs[1].t = "obj"
  /\ \A i \in 1..Len(xs[1].keys) :
       xs[1].vals[i].t = "prim" /\ ~Ignored(xs[1].keys[i], ignoreKeys)

\* the "key:value" pairs of an object of primitives
Pairs(object) ==
  [i \in 1..Len(object.keys) |-> object.keys[i] \o <<":">> \o object.vals[i].s]

\* C15: stableSerialize of an object does not depend on the insertion order
\* of the keys: the keys that remain are sorted lexically and emitted as
\* "key:value" pairs joined with "|" ({ b: 2, a: 1, c: 3 } gives
\* "a:1|b:2|c:3"), and a primitive or null is serialized as its plain string
\* form (null gives "null").
C15_ObjectKeyOrderInsensitive ==
  /\ \A i \in {1, 2} :
       Done(i) =>
         /\ PlainObject(ser.args[i], ser.ignoreKeys)
              => SortedJoin(ser.out[i].strs[1], Pairs(ser.args[i][1]), <<"|">>)
         /\ ser.args[i] = <<ObjBAC>>
              => ser.out[i].strs[1] = <<"a", ":", "1", "|", "b", ":", "2", "|", "c", ":", "3">>
         /\ ser.args[i] = <<Null>> => ser.out[i].strs[1] = <<"n", "u", "l", "l">>
         /\ \A j \in 1..Len(ser.args[i]) :
              ser.args[i][j].t = "prim" => ser.out[i].strs[j] = ser.args[i][j].s
  /\ (/\ Done(1) /\ Done(2)
      /\ Len(ser.args[1]) = 1 /\ ser.args[1][1].t = "obj"
      /\ StructEqLists(ser.args[1], ser.args[2]))
       => ser.out[1].strs = ser.out[2].strs

\* { b: 2, a: 1, c: 3 } and null have been serialized
C15_Witness ==
  /\ Done(1) /\ Done(2)
  /\ ser.args[1] = <<ObjBAC>>
  /\ ser.args[2] = <<Null>>

\* the keys of an object whose members are not undefined, not a function
\* and not a thenable
KeptKeys(object) ==
  {k \in KeySet(object) : Member(object, k).t \notin {"undef", "fn", "thenable"}}

\* objects x and y differ at most in members that are undefined, functions
\* or thenables
SameButDropped(x, y) ==
  /\ x.t = "obj" /\ y.t = "obj"
  /\ KeptKeys(x) = KeptKeys(y)
  /\ \A k \in KeptKeys(x) : StructEq(Member(x, k), Member(y, k))

\* C16: stableSerialize drops every member of an object whose value is
\* undefined, a function or a thenable: adding, removing or changing such a
\* member changes neither the serialized string nor the key, and the member's
\* key is not in the string.
C16_UnserializableMembersDropped ==
  /\ \A i \in {1, 2} :
       (Done(i) /\ Len(ser.args[i]) = 1 /\ ser.args[i][1].t = "obj") =>
         \A k \in KeySet(ser.args[i][1]) \ KeptKeys(ser.args[i][1]) :
           ~Mentions(ser.out[i].strs[1], k)
  /\ (/\ Done(1) /\ Done(2)
      /\ Len(ser.args[1]) = 1 /\ Len(ser.args[2]) = 1
      /\ SameButDropped(ser.args[1][1], ser.args[2][1]))
       => /\ ser.out[1].strs = ser.out[2].strs
          /\ ser.out[1].key = ser.out[2].key

\* { a: 1, b: <function> } and { a: 1 } have got their keys
C16_Witness ==
  /\ Done(1) /\ Done(2)
  /\ ser.args[1] = <<Obj(<< <<"a">>, <<"b">> >>, <<Prim(<<"1">>), Fn>>)>>
  /\ ser.args[2] = <<Obj(<< <<"a">> >>, <<Prim(<<"1">>)>>)>>

\* C17: stableSerialize recurses with the same ignoreKeys: a nested object
\* is serialized with its own keys sorted ({ a: { c: 3, b: 2 }, d: 1 } gives
\* "a:b:2|c:3|d:1"), and a key in ignoreKeys is dropped at every nesting
\* depth, also in objects that are elements of an array.
C17_NestedExclusion ==
  \A i \in {1, 2} :
    Done(i) =>
      /\ ser.args[i] = <<ObjNested>>
           => ser.out[i].strs[1] =
                <<"a", ":", "b", ":", "2", "|", "c", ":", "3", "|", "d", ":", "1">>
      /\ ser.args[i][1] \in SerDeep
           => \A j \in 1..Len(ser.ignoreKeys) :
                ~Mentions(ser.out[i].strs[1], ser.ignoreKeys[j])

(***************************************************************************)
(* Properties of the wrapper's configuration.                              *)
(***************************************************************************)
\* the calls that went to a wrapper with cacheTarget "memory"
MemoryCalls == {c \in Calls : pc[c] # "idle" /\ Wrappers[wrapper[c]].cacheTarget = "memory"}

\* C18: with cacheTarget "memory" a wrapped call performs no operation on the
\* persistent store: it starts no read and no write, it has no resultPromise,
\* and every record of the store was written by a call of a wrapper with
\* another cacheTarget, so that calls in memory mode alone leave the store
\* as it was.
C18_MemoryModeNoStore ==
  /\ \A c \in MemoryCalls :
       /\ read[c] = "none"
       /\ touch[c] = NoWrite
       /\ final[c] = NoWrite
       /\ res[c] = [t |-> "none"]
  /\ \A k \in DOMAIN db :
       db[k] # NoEntry =>
         \E c \in Calls \ MemoryCalls : final[c].st = "applied" /\ KeyOf(c) = k

\* two calls in memory mode have resolved with their generators' values and
\* the store is empty
C18_Witness ==
  /\ Cardinality(MemoryCalls) = 2
  /\ \A c \in MemoryCalls : pc[c] = "run" /\ gen[c].st = "ok" /\ Outcome(c).t = "val"
  /\ \A k \in DOMAIN db : db[k] = NoEntry

\* the keys under which dedup map m holds a promise
Registered(m) == {k \in DOMAIN caches[m] : caches[m][k] # NoPromise}

\* C19: a call in memory mode registers its computation in the dedup map its
\* wrapper was given and nowhere else: each map holds exactly the keys of the
\* calls of the wrappers that were given it, so that after one call of a
\* wrapper with a map of the caller's that map holds one entry, under the
\* call's key, and the default map holds none.
C19_SuppliedMapOnly ==
  \A m \in CacheNames :
    Registered(m) = {KeyOf(c) : c \in {c1 \in Calls : pc[c1] = "run" /\ Wrappers[wrapper[c1]].cache = m}}

\* one call has been made, of a wrapper with a map of the caller's: that map
\* holds one entry and the default map none
C19_Witness ==
  /\ pc[1] = "run" /\ \A c \in Calls \ {1} : pc[c] = "idle"
  /\ Wrappers[wrapper[1]].cache = "external"
  /\ Registered("external") = {KeyOf(1)}
  /\ Registered("default") = {}

\* C20: two calls of a wrapper with ignoreKeys and cacheTarget "memory" whose
\* arguments differ only in the ignored members share one cache entry: they
\* get the same key, the generator runs for the first of them only and the
\* second returns the promise of the first.
C20_IgnoredFieldsShareEntry ==
  \A c1, c2 \in Calls :
    (/\ c1 < c2
     /\ pc[c1] = "run" /\ pc[c2] = "run"
     /\ wrapper[c1] = wrapper[c2]
     /\ Config(c1).cacheTarget = "memory"
     /\ EqualOutside(ArgLists[args[c1]][1], ArgLists[args[c2]][1], Config(c1).ignoreKeys))
      => /\ KeyOf(c1) = KeyOf(c2)
         /\ Cardinality(Invokers({c1, c2})) = 1
         /\ awaits[c1] = awaits[c2]

(***************************************************************************)
(* Properties of the store's records and of the race between the read and  *)
(* the generator.                                                          *)
(***************************************************************************)
\* C21: once the store holds a record for a key, no later operation changes
\* its id or its namespace: the rewrite after a read and the write of a
\* recomputed result, also by a wrapper with another namespace that is called
\* with the same arguments, change only the members and last-accessed.
C21_IdNamespaceImmutable ==
  [][\A k \in DOMAIN db :
       db[k] # NoEntry => db'[k].id = db[k].id /\ db'[k].namespace = db[k].namespace]_vars

\* C24: with resolveInParallel the loser of the race still commits: whenever
\* the generator of a call resolves, also after the read has settled the
\* call, the generator's own result is handed to writeToCache.
C24_LoserStillWrites ==
  [][\A c \in Calls :
       (/\ pc[c] = "run"
        /\ Config(c).cacheTarget # "memory"
        /\ Config(c).resolveInParallel
        /\ gen[c].st = "pending" /\ gen'[c].st = "ok")
         => final'[c] = PendingWrite(ResultsToCache(KeyOf(c), Config(c).namespace,
                                                    GenValue(c, gen'[c].shape)))]_vars

\* the calls of wrappers with cacheTarget "idb" or "both" that have their key
PersistentCalls == {c \in Calls : pc[c] = "run" /\ Config(c).cacheTarget # "memory"}

\* C25: with resolveInParallel = false the generator is invoked only after
\* readFromCache has settled, and only when it found no record or failed; a
\* call whose read found a record never invokes the generator and resolves
\* with the record.
C25_GeneratorAfterMiss ==
  \A c \in PersistentCalls :
    ~Config(c).resolveInParallel =>
      /\ gen[c].st # "none" => read[c] \in {"miss", "fail"}
      /\ read[c] = "hit" => gen[c].st = "none" /\ res[c].t = "val" /\ res[c].v.src = "idb"

\* a sequential call has read a record and resolved with it
C25_Witness ==
  \E c \in PersistentCalls :
    /\ ~Config(c).resolveInParallel
    /\ read[c] = "hit" /\ gen[c].st = "none"
    /\ res[c] = Fulfilled(EntryValue([db[KeyOf(c)] EXCEPT !.la = 0]))

\* C26: with resolveInParallel, when the store holds no record for the key,
\* the call settles with what the generator does, in every interleaving: the
\* read side rejects and never wins, whether it finishes before the generator
\* (the call stays pending until the generator settles) or after it.
C26_MissNeverWins ==
  \A c \in PersistentCalls :
    Config(c).resolveInParallel =>
      /\ read[c] = "miss" => res[c] = MissOutcome(c)
      /\ read[c] = "pending" /\ gen[c].st = "ok"
           => res[c] = Fulfilled(GenValue(c, gen[c].shape))
      /\ read[c] = "pending" /\ gen[c].st # "ok" => res[c] = Pending

\* a call in parallel mode has missed and waits for its generator, and
\* another has missed and resolved with its generator's value
C26_Witness ==
  \E c1, c2 \in PersistentCalls :
    /\ Config(c1).resolveInParallel /\ Config(c2).resolveInParallel
    /\ read[c1] = "miss" /\ gen[c1].st = "pending" /\ res[c1] = Pending
    /\ read[c2] = "miss" /\ res[c2] = Fulfilled(GenValue(c2, "obj"))

\* C27: with resolveInParallel a rejection of the generator reaches the
\* caller only if the read yields no record as well: a call whose read found
\* a record resolves, with the record when the generator rejected, whichever
\* of the two finished first.
C27_RejectionNeedsMiss ==
  \A c \in PersistentCalls :
    Config(c).resolveInParallel =>
      /\ res[c].t = "rej" => gen[c].st = "err" /\ read[c] \in {"miss", "fail"}
      /\ read[c] = "hit" => res[c].t = "val"
      /\ read[c] = "hit" /\ gen[c].st = "err" => res[c].v.src = "idb"
      /\ read[c] = "pending" /\ gen[c].st = "err" => res[c] = Pending

\* the generator of a call in parallel mode has rejected and the call has
\* resolved with the record it read
C27_Witness ==
  \E c \in PersistentCalls :
    /\ Config(c).resolveInParallel
    /\ gen[c].st = "err" /\ read[c] = "hit"
    /\ res[c].t = "val" /\ res[c].v.src = "idb" /\ res[c].v.entry.id = KeyOf(c)

\* C30: the dedup map is get-or-create: once it holds a promise under a key,
\* no call of any wrapper that shares the map replaces or removes it, settled
\* or not; a promise is stored only under a key that is absent.
C30_MapEntryKept ==
  [][\A m \in CacheNames : \A k \in DOMAIN caches[m] :
       caches[m][k] # NoPromise => caches'[m][k] = caches[m][k]]_vars

\* C22: a record is removed only by cleanup: no call, read, rewrite or write
\* of a wrapper deletes one, only the cursor of a running simpleCleanup does,
\* and only a record that is stale for its arguments; and a record appears
\* under a key that had none only after the resultPromise of a call with
\* that key has resolved, or when an aborted cleanup gives back what it
\* deleted.
C22_RemovedOnlyByCleanup ==
  [][\A k \in DOMAIN db :
       /\ (db[k] # NoEntry /\ db'[k] = NoEntry)
            => /\ cl.pc = "scan" /\ cl'.cursor = k
               /\ Stale(db[k], cl.namespace, cl.now, cl.maxAgeMinutes)
       /\ (db[k] = NoEntry /\ db'[k] # NoEntry)
            => \/ \E c \in Calls : pc[c] = "run" /\ KeyOf(c) = k /\ res[c].t = "val"
               \/ cl.pc = "scan" /\ cl'.outcome = "aborted"]_vars

\* C23: every record a wrapper persists for a result of its generator has
\* the call's cacheKey as id and the wrapper's namespace as namespace,
\* whatever the result, also one that has members named id and namespace
\* itself, and its last-accessed is the time of the write.
C23_PersistedIdAndNamespace ==
  [][\A c \in Calls :
       (/\ final[c].st = "pending" /\ final'[c].st = "applied"
        /\ res[c].t = "val" /\ res[c].v.src = "gen")
         => /\ db'[KeyOf(c)].id = KeyOf(c)
            /\ db'[KeyOf(c)].namespace = Config(c).namespace
            /\ db'[KeyOf(c)].la = now]_vars

\* C28: every read that finds a record starts a rewrite of that record, and
\* the rewrite sets last-accessed to the time it is made and leaves the rest
\* of the record as it was read, so that the age simpleCleanup sees starts
\* again at zero.
C28_ReadTouches ==
  [][\A c \in Calls :
       /\ (ReadOk(c) /\ db[KeyOf(c)] # NoEntry)
            => touch'[c] = PendingWrite(db[KeyOf(c)])
       /\ TouchApply(c)
            => /\ db'[touch[c].value.id] = [touch[c].value EXCEPT !.la = now]
               /\ LastAccessed(db'[touch[c].value.id]) = now
               /\ \A m \in 0..MaxAgeArg :
                    ~Stale(db'[touch[c].value.id], touch[c].value.namespace, now, m)]_vars

\* a call has read a record that was written at an earlier time, and the
\* rewrite has brought last-accessed to the present
C28_Witness ==
  \E c \in Calls :
    /\ read[c] = "hit" /\ touch[c].st = "done"
    /\ res[c].t = "val" /\ res[c].v.src = "idb"
    /\ res[c].v.entry.la < now
    /\ db[KeyOf(c)].la = now

\* the record written for a result that is undefined or null
Placeholder(c) ==
  [id |-> KeyOf(c), namespace |-> Config(c).namespace, fields |-> NoFields, la |-> 0]

\* the earlier calls with the same key that resolved with undefined and
\* whose write had completed when call c was made
EarlierAbsent(c) ==
  {c1 \in prior[c] : key[c1] = key[c] /\ res[c1] = Fulfilled(GenValue(c1, "undef"))}

Serialized(i) == Join(ser.out[i].strs, <<",">>)

\* the bijections of 1..n
Bijections(n) == {p \in [1..n -> 1..n] : \A i, j \in 1..n : p[i] = p[j] => i = j}

\* x and y are the same value up to the order of array elements, the
\* insertion order of keys and the members that are never serialized
RECURSIVE Similar(_, _)
Similar(x, y) ==
  IF x.t # y.t THEN FALSE
  ELSE IF x.t = "arr"
    THEN /\ Len(x.items) = Len(y.items)
         /\ \E p \in Bijections(Len(x.items)) :
              \A i \in 1..Len(x.items) : Similar(x.items[i], y.items[p[i]])
  ELSE IF x.t = "obj"
    THEN LET kept(o) == {k \in KeySet(o) : Member(o, k).t \notin {"undef", "fn", "thenable"}}
         IN /\ kept(x) = kept(y)
            /\ \A k \in kept(x) : Similar(Member(x, k), Member(y, k))
  ELSE x = y

\* argument lists of the same length with similar values at the same places
SimilarLists(xs, ys) ==
  /\ Len(xs) = Len(ys)
  /\ \A i \in 1..Len(xs) : Similar(xs[i], ys[i])

\* C31: two argument lists that are not the same up to array order, key
\* order and dropped members, because they differ in nesting or in how the
\* values are split across the arguments, are serialized to different
\* strings before hashing, and so get different keys.
C31_StructureKept ==
  (Done(1) /\ Done(2) /\ ~SimilarLists(ser.args[1], ser.args[2]))
    => /\ Serialized(1) # Serialized(2)
       /\ ser.out[1].key # ser.out[2].key

\* calls of wrappers that differ in the namespace, made with the same
\* arguments and the same ignoreKeys, that have their key
SameArgsOtherNamespace(c1, c2) ==
  /\ pc[c1] = "run" /\ pc[c2] = "run"
  /\ args[c1] = args[c2]
  /\ Config(c1).ignoreKeys = Config(c2).ignoreKeys
  /\ Config(c1).namespace # Config(c2).namespace

\* C32: the namespace takes no part in the key: calls of wrappers with
\* different namespaces and equal arguments get the same key, the records
\* they write go under the same id, and with cacheTarget "both" and the same
\* map they use the same slot, which holds the resultPromise of a call made
\* with these arguments.
C32_NamespaceNotInKey ==
  \A c1, c2 \in Calls :
    SameArgsOtherNamespace(c1, c2)
      => /\ key[c1] = key[c2]
         /\ (final[c1].st = "pending" /\ final[c2].st = "pending")
              => final[c1].value.id = final[c2].value.id
         /\ (/\ Config(c1).cacheTarget = "both" /\ Config(c2).cacheTarget = "both"
             /\ Config(c1).cache = Config(c2).cache)
              => \E c \in Calls :
                   /\ pc[c] = "run" /\ key[c] = key[c1] /\ args[c] = args[c1]
                   /\ caches[Config(c1).cache][key[c1]] = ResultPromise(c)

\* a call of a wrapper with one namespace has been served by the record a
\* wrapper with another namespace wrote for the same arguments
C32_Witness ==
  \E c1, c2 \in Calls :
    /\ SameArgsOtherNamespace(c1, c2)
    /\ final[c1].st = "applied"
    /\ read[c2] = "hit"
    /\ res[c2].t = "val" /\ res[c2].v.src = "idb"
    /\ res[c2].v.entry.namespace = Config(c1).namespace
    /\ caches[Config(c2).cache][key[c1]] = ResultPromise(c2)

\* C33: last-accessed of every record in the store is a whole number of
\* minutes: the time of the write cut down to the minute, never a fraction.
\* A value of the model is a number of ticks, TicksPerMinute to the minute.
C33_WholeMinutes ==
  \A k \in DOMAIN db :
    db[k] # NoEntry => LastAccessed(db[k]) % TicksPerMinute = 0

\* the calls in memory mode that share map and key with call c1, whose
\* generator has rejected
AfterRejection(c1) ==
  {c \in Calls \ {c1} : /\ pc[c] = "run" /\ Config(c).cacheTarget = "memory"
                        /\ Config(c).cache = Config(c1).cache
                        /\ key[c] = key[c1]}

\* C34: in memory mode a rejected promise stays in the dedup map: once the
\* generator invoked by a call has rejected, the slot of the key still holds
\* its promise, and every other call with that key on that map has not
\* invoked the generator and has returned that promise, so that it rejects
\* with the error of that one invocation.
C34_RejectionStays ==
  \A c1 \in MemoryCalls :
    gen[c1].st = "err"
      => /\ caches[Config(c1).cache][key[c1]] = GenPromise(c1)
         /\ \A c \in AfterRejection(c1) :
              /\ gen[c] = NoGen
              /\ awaits[c] = GenPromise(c1)
              /\ Outcome(c) = Rejected(GenError(c1))

\* after a rejection two later calls, of another wrapper on the same map,
\* have rejected with the error of the first call's generator, which is the
\* only one that ran
C34_Witness ==
  \E c1 \in Calls :
    /\ gen[c1].st = "err"
    /\ \A c \in Calls \ {c1} :
         /\ c > c1 /\ pc[c] = "run" /\ wrapper[c] # wrapper[c1]
         /\ gen[c] = NoGen
         /\ Outcome(c) = Rejected(GenError(c1))
    /\ Cardinality(Calls) = NMemoryCalls

\* the calls of wrappers with resolveInParallel that have passed the key
ParallelCalls == {c \in PersistentCalls : Config(c).resolveInParallel}

Returned(v) ==
  IF v.src = "idb"
    THEN [absent |-> FALSE,
          members |-> {"id", "namespace", "last-accessed"}
                        \cup (IF v.entry.fields = NoFields THEN {} ELSE {"result"})]
  ELSE [absent |-> v.shape = "undef",
        members |-> (IF v.shape = "undef" THEN {} ELSE {"result"})
                      \cup (IF v.shape = "own" THEN {"id", "namespace"} ELSE {})]

\* the generator result a record was written for
Original(entry) ==
  GenValue(entry.fields.by, IF entry.fields = NoFields THEN "undef" ELSE entry.fields.shape)

\* C36: a call that is served from the store resolves with the value the
\* generator resolved with when the record was written: it has the members
\* of that value and neither id, namespace nor last-accessed, and it is
\* undefined when that value was.
C36_ServedValueIsOriginal ==
  \A c \in PersistentCalls :
    (res[c].t = "val" /\ res[c].v.src = "idb")
      => Returned(res[c].v) = Returned(Original(res[c].v.entry))

\* C37: once the promise of simpleCleanup has resolved with the database
\* open, the scan is over: the cursor has visited every record, the
\* deletions are committed, and the store holds no record of the namespace
\* that is older than maxAgeMinutes.
C37_ResolvedAfterScan ==
  (cl.settled = "resolved" /\ cl.outcome # "unopened")
    => /\ cl.pc = "idle"
       /\ cl.outcome = "committed"
       /\ \A k \in DOMAIN db :
            db[k] # NoEntry => ~Stale(db[k], cl.namespace, cl.now, cl.maxAgeMinutes)

\* C38: the rewrite that a read starts changes nothing but last-accessed of
\* the record that is in the store when the rewrite is made: whatever was
\* written under the key since the read keeps its members and its namespace.
C38_TouchOnlyLastAccessed ==
  [][\A c \in Calls :
       (TouchApply(c) /\ db[touch[c].value.id] # NoEntry)
         => db'[touch[c].value.id] = [db[touch[c].value.id] EXCEPT !.la = now]]_vars

\* C39: a call does not wait for the store once its generator has resolved:
\* from then on its resultPromise is fulfilled, whether or not the write it
\* started and, with resolveInParallel, its read have completed or ever
\* will; with resolveInParallel = false the resultPromise stays pending
\* while the read is under way.
C39_SettlesWithoutStore ==
  \A c \in PersistentCalls :
    /\ gen[c].st = "ok" => res[c].t = "val"
    /\ (~Config(c).resolveInParallel /\ read[c] = "pending") => res[c] = Pending

\* a call has resolved with its generator's value while its read and the
\* write of that value are still under way
C39_Witness ==
  \E c \in ParallelCalls :
    /\ gen[c].st = "ok"
    /\ res[c] = Fulfilled(GenValue(c, gen[c].shape))
    /\ Outcome(c) = res[c]
    /\ read[c] = "pending"
    /\ final[c].st = "pending"

\* call c of a wrapper with cacheTarget "idb" or "both" gets its key in
\* this step
PersistentKeyStep(c) ==
  pc[c] = "key" /\ pc'[c] = "run" /\ Config(c).cacheTarget # "memory"

====
